---- MODULE Spec2Model ----
(***************************************************************************)
(* Model of the dataset viewer controller.  Two variants of the script     *)
(* exist: the paged one (src/unnamed/part_000: 9 numbered controls per     *)
(* page, shuffle, class-only descriptor list) and the flat one             *)
(* (src/assets/app.js: one strip of numbered controls, species list only). *)
(* A JavaScript string is a sequence of one-character strings; a JSON /    *)
(* JavaScript value is a record [t |-> type tag, v |-> content].           *)
(***************************************************************************)
EXTENDS Integers, Sequences, FiniteSets, Bags, TLC

(* ------------------------------ bounds --------------------------------- *)
\* longest manifest that mixes entry kinds
MaxShort == 2
\* long (uniform) manifests fill up to this many button pages
MaxPages == 3
\* descriptor fetches that may be in flight at once
MaxInFlight == 3
\* longest array in a descriptor payload under study
MaxElems == 2
\* most properties of an object payload under study
MaxProps == 2

(* ------------------------- program constants --------------------------- *)
PageSize == 9
IMAGE_BASE_URL == <<>>

(* --------------------------- JavaScript values ------------------------- *)
JUndef == [t |-> "undefined", v |-> <<>>]
JNull == [t |-> "null", v |-> <<>>]
JStr(s) == [t |-> "string", v |-> s]
JNum(digits) == [t |-> "number", v |-> digits]
JArr(elems) == [t |-> "array", v |-> elems]
\* an object is the sequence of its own properties in Object.values order
JObj(props) == [t |-> "object", v |-> props]
Prop(k, val) == [k |-> k, val |-> val]

\* ToBoolean, for the values a manifest entry's fields take
Truthy(x) ==
  CASE x.t = "undefined" -> FALSE
    [] x.t = "null" -> FALSE
    [] x.t = "string" -> x.v # <<>>
    [] OTHER -> TRUE

\* Array.prototype.join(",") over the already stringified parts
RECURSIVE JoinComma(_)
JoinComma(parts) ==
  IF parts = <<>> THEN <<>>
  ELSE IF Len(parts) = 1 THEN parts[1]
  ELSE parts[1] \o <<",">> \o JoinComma(Tail(parts))

\* String(x), and the x of a template literal `${x}`
RECURSIVE ToStr(_)
ToStr(x) ==
  CASE x.t = "string" -> x.v
    [] x.t = "number" -> x.v
    [] x.t = "array" ->
         JoinComma([i \in 1..Len(x.v) |->
                      IF x.v[i].t \in {"null", "undefined"} THEN <<>> ELSE ToStr(x.v[i])])
    [] x.t = "undefined" -> <<"u", "n", "d", "e", "f", "i", "n", "e", "d">>
    [] x.t = "null" -> <<"n", "u", "l", "l">>
    [] OTHER -> <<"[", "o", "b", "j", "e", "c", "t", " ", "O", "b", "j", "e", "c", "t", "]">>

Whitespace == {" ", "\t", "\n"}

RECURSIVE TrimStart(_)
TrimStart(s) ==
  IF s # <<>> /\ Head(s) \in Whitespace THEN TrimStart(Tail(s)) ELSE s

RECURSIVE TrimEnd(_)
TrimEnd(s) ==
  IF s # <<>> /\ s[Len(s)] \in Whitespace
  THEN TrimEnd(SubSeq(s, 1, Len(s) - 1))
  ELSE s

\* String.prototype.trim
Trim(s) == TrimEnd(TrimStart(s))

\* species.replaceAll("_", " ")
ReplaceUnderscores(s) == [i \in 1..Len(s) |-> IF s[i] = "_" THEN " " ELSE s[i]]

SeqRange(s) == {s[i] : i \in 1..Len(s)}

\* Array.prototype.flat, one level
RECURSIVE Flat(_)
Flat(ss) == IF ss = <<>> THEN <<>> ELSE Head(ss) \o Flat(Tail(ss))

\* uniq: Array.from(new Set(arr)) keeps the first occurrence of each element
RECURSIVE uniq(_)
uniq(arr) ==
  IF arr = <<>> THEN <<>>
  ELSE LET init == uniq(SubSeq(arr, 1, Len(arr) - 1))
           last == arr[Len(arr)]
       IN IF last \in SeqRange(init) THEN init ELSE Append(init, last)

(* ------------------------ descriptor normalisation --------------------- *)
\* (mutant: the known keys tried in another order)
DescriptorKeysAttributesFirst == <<"attributes", "descriptors", "captions", "descriptor_list">>

DescriptorKeys == <<"descriptors", "attributes", "captions", "descriptor_list">>

\* obj?.[k]: the value of own property k, undefined when absent or obj is no object
GetProp(obj, k) ==
  IF obj.t = "object" /\ \E i \in 1..Len(obj.v) : obj.v[i].k = k
  THEN LET i == CHOOSE j \in 1..Len(obj.v) : obj.v[j].k = k IN obj.v[i].val
  ELSE JUndef

MapString(elems) == [i \in 1..Len(elems) |-> ToStr(elems[i])]

RECURSIVE FirstListKey(_, _)
FirstListKey(obj, keys) ==
  IF keys = <<>> THEN ""
  ELSE IF GetProp(obj, Head(keys)).t = "array" THEN Head(keys)
  ELSE FirstListKey(obj, Tail(keys))

normalizeDescriptorList(obj) ==
  IF obj.t = "array" THEN MapString(obj.v)
  ELSE IF FirstListKey(obj, DescriptorKeys) # ""
  THEN MapString(GetProp(obj, FirstListKey(obj, DescriptorKeys)).v)
  ELSE IF obj.t = "object" /\ \A i \in 1..Len(obj.v) : obj.v[i].val.t = "string"
  THEN [i \in 1..Len(obj.v) |-> obj.v[i].val.v]
  ELSE <<>>

NonEmpty(s) == s # <<>>

TrimAll(data) == [i \in 1..Len(data) |-> Trim(data[i])]

\* (mutant: duplicates removed before the strings are trimmed)
PostProcessUniqFirst(data) == SelectSeq(TrimAll(uniq(data)), NonEmpty)

\* uniq(data.map(s => s.trim()).filter(Boolean))
PostProcess(data) == uniq(SelectSeq(TrimAll(data), NonEmpty))

(* ------------------------------- inputs -------------------------------- *)
SpA == <<"s", "_", "a">>
SpB == <<"s", "_", "b">>
SpC == <<"s", "_", "c">>
Cls0 == <<"0">>
Cls1 == <<"1">>

Entry(path, species, cls) == [image_path |-> path, species |-> species, class_name |-> cls]
EntryA == Entry(JStr(<<"a">>), JStr(SpA), JStr(Cls0))
EntryB == Entry(JStr(<<"b">>), JStr(SpB), JStr(Cls0))
\* entry of a class with two other species
EntryC == Entry(JStr(<<"d">>), JStr(SpC), JStr(Cls1))
\* valid entry that names no class
EntryNoClass == Entry(JStr(<<"c">>), JStr(SpB), JUndef)
\* entries the load-time filter drops
EntryNoSpecies == Entry(JStr(<<"n">>), JUndef, JUndef)
EntryNoPath == Entry(JUndef, JStr(SpA), JStr(Cls0))

ShortKinds == {EntryA, EntryNoSpecies}
UniformKinds == {EntryNoClass, EntryNoSpecies}

SeqsUpTo(S, n) == UNION {[1..k -> S] : k \in 0..n}
LongLens == UNION {{k * PageSize, k * PageSize + 1} : k \in 1..(MaxPages - 1)}

\* contents images_index.json may have
Manifests ==
  SeqsUpTo(ShortKinds, MaxShort)
    \cup {<<EntryA, EntryB>>, <<EntryNoClass, EntryA>>, <<EntryNoPath, EntryB>>, <<EntryC>>}
    \cup {[i \in 1..n |-> e] : n \in LongLens, e \in UniformKinds}

EmptyMap == [c \in {} |-> <<>>]
\* contents class_to_species.json may have
ClassMaps ==
  { EmptyMap,
    [c \in {Cls0, Cls1} |-> IF c = Cls0 THEN <<JStr(SpB), JStr(SpA), JStr(SpB)>>
                                         ELSE <<JStr(SpA), JStr(SpC), JStr(SpB)>>] }

\* contents a descriptor file may have
FilePayloads ==
  { JArr(<<JStr(<<"x">>), JStr(<<"y">>)>>),
    JObj(<<Prop("attributes", JArr(<<JStr(<<"y">>), JStr(<<" ", "z", " ">>), JStr(<<"y">>)>>))>>) }

\* what fetchJson ends with: a thrown error (bad status, invalid JSON) or the parsed body
\* (the body of an error response is the server's error document)
FailOutcome == [ok |-> FALSE, body |-> JObj(<<Prop("error", JStr(<<"4", "0", "4">>))>>)]
FetchOutcomes == {FailOutcome} \cup {[ok |-> TRUE, body |-> p] : p \in FilePayloads}

\* elements an array in a descriptor file may hold
PayloadElems ==
  { JStr(<<"x">>), JStr(<<" ", "x">>), JStr(<<"y", "\t">>), JStr(<<" ">>), JStr(<<>>),
    JNum(<<"7">>), JNull, JObj(<<>>), JArr(<<JNull, JStr(<<"x">>)>>) }

\* values a property of an object in a descriptor file may hold
PayloadVals ==
  { JArr(<<JStr(<<"x">>)>>), JArr(<<JStr(<<" ", "y">>), JNum(<<"7">>)>>),
    JStr(<<"x">>), JStr(<<" ">>), JNum(<<"7">>) }

PayloadKeys == SeqRange(DescriptorKeys) \cup {"id"}

\* the objects of at most MaxProps properties, no key twice
PayloadObjects ==
  { JObj(ps) : ps \in { q \in SeqsUpTo({Prop(k, val) : k \in PayloadKeys, val \in PayloadVals}, MaxProps) :
                          \A i, j \in 1..Len(q) : i # j => q[i].k # q[j].k } }

\* parsed bodies the descriptor loader is studied on: lists, objects, null and scalars
LoadPayloads ==
  {JArr(es) : es \in SeqsUpTo(PayloadElems, MaxElems)}
    \cup PayloadObjects
    \cup {JNull, JNum(<<"7">>), JStr(<<"x">>)}

LoadOutcomes == {FailOutcome} \cup {[ok |-> TRUE, body |-> p] : p \in LoadPayloads}

(* -------------------------------- state -------------------------------- *)
VARIABLES
  variant,          \* "paged" (part_000) or "flat" (assets/app.js)
  mainPc,           \* where main() is
  items,            \* state.items
  classToSpecies,   \* state.classToSpecies
  idx,              \* state.idx
  btnPage,          \* state.btnPage
  cacheDescriptors, \* state.cacheDescriptors
  renders,          \* bag of render() calls suspended in renderDescriptors
  fetched,          \* the species whose descriptor file has been fetched
  refetched,        \* those whose file has been fetched more than once
  meta,             \* #meta
  bigTitle,         \* #bigTitle
  imgSrc,           \* #mainImg src
  numstrip,         \* #numstrip
  speciesList,      \* #speciesList rows
  classList,        \* #classList rows
  ldPc,             \* where the loadDescriptorsForSpecies call under study is
  ldObj,            \* what its fetchJson ended with
  ldData,           \* its local `data`
  ldOut             \* its local `out`

prog == <<variant, mainPc, items, classToSpecies, idx, btnPage, cacheDescriptors>>
dom == <<meta, bigTitle, imgSrc, numstrip, speciesList, classList>>
fetches == <<fetched, refetched>>
loader == <<ldPc, ldObj, ldData, ldOut>>
vars == <<prog, renders, fetches, dom, loader>>

N == Len(items)

(* ------------------------------ the cache ------------------------------ *)
CacheHas(c, k) == k \in DOMAIN c
CacheSet(c, k, val) == [x \in (DOMAIN c) \cup {k} |-> IF x = k THEN val ELSE c[x]]

(* ------------------------------ rendering ------------------------------ *)
\* (mutant: the upper test written > instead of >=)
clampIdxOffByOne(i, n) ==
  LET a == IF n = 0 THEN 0 ELSE i
      b == IF a < 0 THEN n - 1 ELSE a
  IN IF b > n THEN 0 ELSE b

\* (mutant: a negative index is reset to 0 instead of wrapping to the end)
clampIdxNoWrap(i, n) ==
  LET a == IF n = 0 THEN 0 ELSE i
      b == IF a < 0 THEN 0 ELSE a
  IN IF b >= n THEN 0 ELSE b

clampIdx(i, n) ==
  LET a == IF n = 0 THEN 0 ELSE i
      b == IF a < 0 THEN n - 1 ELSE a
  IN IF b >= n THEN 0 ELSE b

Min(a, b) == IF a < b THEN a ELSE b

BlankMeta == [kind |-> "blank", pos |-> 0, total |-> 0, label |-> <<>>]
ErrorMeta(file) == [kind |-> "error", pos |-> 0, total |-> 0, label |-> <<file>>]

\* paged: `${idx + 1} / ${N} . ${speciesPretty}`; flat: `Species: ${speciesPretty}` or ""
setMetaText(v, item, i, n) ==
  IF v = "paged"
  THEN [kind |-> "position", pos |-> i + 1, total |-> n,
        label |-> ReplaceUnderscores(item.species.v)]
  ELSE IF Truthy(item.species)
  THEN [kind |-> "species", pos |-> 0, total |-> 0,
        label |-> ReplaceUnderscores(item.species.v)]
  ELSE BlankMeta

BlankTitle == [pos |-> 0, total |-> 0, path |-> <<>>]
setBigTitle(item, i, n) ==
  [pos |-> i + 1, total |-> n,
   path |-> IF Truthy(item.image_path) THEN item.image_path.v ELSE <<>>]

setImage(item) == IMAGE_BASE_URL \o ToStr(item.image_path)

\* the numbered controls first..first+count-1 (0-based targets), the one marked
\* active (-1: none) and whether the "0" control is there
EmptyStrip == [first |-> 0, count |-> 0, active |-> -1, adv |-> FALSE]
renderNumButtons(v, i, bp, n) ==
  LET start == IF v = "paged" THEN bp * PageSize ELSE 0
      end == IF v = "paged" THEN Min(start + PageSize, n) ELSE n
  IN [first |-> IF start < end THEN start ELSE 0,
      count |-> IF start < end THEN end - start ELSE 0,
      active |-> IF start <= i /\ i < end THEN i ELSE -1,
      adv |-> (v = "paged")]

Letters == <<"A", "B", "C", "D", "E", "F", "G", "H", "I", "J", "K", "L", "M",
             "N", "O", "P", "Q", "R", "S", "T", "U", "V", "W", "X", "Y", "Z">>

RECURSIVE ColLabel(_)
ColLabel(n) ==
  IF n > 0 THEN ColLabel((n - 1) \div 26) \o <<Letters[((n - 1) % 26) + 1]>> ELSE <<>>

toColLabel(n0) == ColLabel(n0 + 1)

\* the rows of a descriptor list: text rows (badged in the flat variant), or the
\* single "No descriptors found." row
PlaceholderRow == [kind |-> "empty", badge |-> <<>>, text |-> <<>>]
renderList(v, descs) ==
  IF Len(descs) = 0 THEN <<PlaceholderRow>>
  ELSE [i \in 1..Len(descs) |->
          [kind |-> "text",
           badge |-> IF v = "paged" THEN <<>> ELSE toColLabel(i - 1),
           text |-> descs[i]]]

\* the species renderDescriptors fans out to
OtherSpecies(v, item, c2s) ==
  IF v = "paged" /\ Truthy(item.class_name) /\ item.class_name.v \in DOMAIN c2s
  THEN SelectSeq(c2s[item.class_name.v], LAMBDA sp : sp # item.species)
  ELSE <<>>

Pending == [done |-> FALSE, val |-> <<>>]
Resolved(val) == [done |-> TRUE, val |-> val]

\* otherSpecies.map(loadDescriptorsForSpecies): a cached species resolves at once,
\* every other call issues its own fetch
SiblingCalls(others, c) ==
  [j \in 1..Len(others) |->
     IF CacheHas(c, others[j]) THEN Resolved(c[others[j]]) ELSE Pending]

\* the calls for the species in calls, made with cache c, fetch on every miss
IssueFetches(calls, c) ==
  LET missed == SelectSeq(calls, LAMBDA k : ~CacheHas(c, k))
      twice == {k \in SeqRange(missed) :
                  Cardinality({j \in 1..Len(missed) : missed[j] = k}) > 1}
  IN /\ fetched' = fetched \cup SeqRange(missed)
     /\ refetched' = refetched \cup (SeqRange(missed) \cap fetched) \cup twice

\* (mutant: the fan-out goes on as soon as one sibling list is there)
AnyDone(res) == \E j \in 1..Len(res) : res[j].done

AllDone(res) == \A j \in 1..Len(res) : res[j].done

ClassDesc(res) == uniq(Flat([j \in 1..Len(res) |-> res[j].val]))
OtherOnly(myDesc, res) ==
  SelectSeq(ClassDesc(res), LAMBDA d : d \notin SeqRange(myDesc))

Task(item, phase, myDesc, others, res) ==
  [item |-> item, phase |-> phase, myDesc |-> myDesc, others |-> others, res |-> res]

\* the two renderList calls that end renderDescriptors
WriteLists(myDesc, res) ==
  /\ speciesList' = renderList(variant, myDesc)
  /\ classList' = IF variant = "paged"
                  THEN renderList(variant, OtherOnly(myDesc, res))
                  ELSE classList

\* the fetches a suspended render waits for
PendingOf(t) ==
  IF t.phase = "my" THEN 1 ELSE Cardinality({j \in 1..Len(t.res) : ~t.res[j].done})

RECURSIVE InFlightIn(_, _)
InFlightIn(b, S) ==
  IF S = {} THEN 0
  ELSE LET t == CHOOSE x \in S : TRUE
       IN b[t] * PendingOf(t) + InFlightIn(b, S \ {t})

InFlight(b) == InFlightIn(b, BagToSet(b))

Suspend(t) ==
  /\ InFlight(renders) + PendingOf(t) <= MaxInFlight
  /\ renders' = renders (+) SetToBag({t})
  /\ UNCHANGED <<speciesList, classList>>

\* renderDescriptors(item) up to its first suspension on a fetch
renderDescriptors(item, others) ==
  IF ~CacheHas(cacheDescriptors, item.species)
  THEN /\ IssueFetches(<<item.species>>, cacheDescriptors)
       /\ Suspend(Task(item, "my", <<>>, others, <<>>))
  ELSE LET myDesc == cacheDescriptors[item.species]
           res == SiblingCalls(others, cacheDescriptors)
       IN /\ IssueFetches(others, cacheDescriptors)
          /\ IF AllDone(res)
             THEN renders' = renders /\ WriteLists(myDesc, res)
             ELSE Suspend(Task(item, "others", myDesc, others, res))

\* render() called with state.idx = i0, state.btnPage = bp, state.items = its
render(i0, bp, its, c2s) ==
  LET i == clampIdx(i0, Len(its)) IN
  /\ idx' = i
  /\ cacheDescriptors' = cacheDescriptors
  /\ IF i >= Len(its)
     THEN btnPage' = bp /\ UNCHANGED <<dom, renders, fetches>>
     ELSE LET item == its[i + 1]
              page == IF variant = "paged" THEN i \div PageSize ELSE bp
          IN /\ btnPage' = page
             /\ IF variant = "paged" /\ item.species.t # "string"
                THEN \* item.species.replaceAll throws: render() rejects here
                     UNCHANGED <<dom, renders, fetches>>
                ELSE /\ meta' = setMetaText(variant, item, i, Len(its))
                     /\ bigTitle' = IF variant = "flat"
                                    THEN setBigTitle(item, i, Len(its))
                                    ELSE bigTitle
                     /\ imgSrc' = setImage(item)
                     /\ numstrip' = renderNumButtons(variant, i, page, Len(its))
                     /\ renderDescriptors(item, OtherSpecies(variant, item, c2s))

(* ------------------------------- startup ------------------------------- *)
\* the module has run: setupControls() wired every handler and main() is
\* suspended on the fetch of images_index.json
ViewerInit ==
  /\ variant \in {"paged", "flat"}
  /\ mainPc = "images_index"
  /\ items = <<>>
  /\ classToSpecies = EmptyMap
  /\ idx = 0
  /\ btnPage = 0
  /\ cacheDescriptors = [k \in {} |-> <<>>]
  /\ renders = EmptyBag
  /\ fetched = {}
  /\ refetched = {}
  /\ meta = BlankMeta
  /\ bigTitle = BlankTitle
  /\ imgSrc = <<>>
  /\ numstrip = EmptyStrip
  /\ speciesList = <<>>
  /\ classList = <<>>

NoOutcome == [ok |-> FALSE, body |-> JUndef]

\* the viewer on its own: no loadDescriptorsForSpecies call is singled out
Init ==
  /\ ViewerInit
  /\ ldPc = "idle"
  /\ ldObj = NoOutcome
  /\ ldData = <<>>
  /\ ldOut = <<>>

\* main().catch: the message goes to #meta, nothing else is touched
mainFailed(file) ==
  /\ mainPc' = "failed"
  /\ meta' = ErrorMeta(file)
  /\ UNCHANGED <<variant, items, classToSpecies, idx, btnPage, cacheDescriptors>>
  /\ UNCHANGED <<renders, fetches, bigTitle, imgSrc, numstrip, speciesList, classList>>
  /\ UNCHANGED loader

\* state.items = await fetchJson("data/images_index.json")
mainImagesIndex ==
  /\ mainPc = "images_index"
  /\ \/ mainFailed("images_index.json")
     \/ \E m \in Manifests :
          /\ items' = m
          /\ mainPc' = "class_to_species"
          /\ UNCHANGED <<variant, classToSpecies, idx, btnPage, cacheDescriptors>>
          /\ UNCHANGED <<renders, fetches, dom, loader>>

ValidEntry(x) == Truthy(x.image_path) /\ Truthy(x.species)

\* state.classToSpecies = await fetchJson(...); the filter; await render()
mainClassToSpecies ==
  /\ mainPc = "class_to_species"
  /\ \/ mainFailed("class_to_species.json")
     \/ \E cm \in ClassMaps :
          LET kept == SelectSeq(items, ValidEntry) IN
          /\ classToSpecies' = cm
          /\ items' = kept
          /\ mainPc' = "done"
          /\ variant' = variant
          /\ render(idx, btnPage, kept, cm)
          /\ UNCHANGED loader

(* ------------------------------ controls ------------------------------- *)
Navigate(i0) ==
  /\ render(i0, btnPage, items, classToSpecies)
  /\ UNCHANGED <<variant, mainPc, items, classToSpecies, loader>>

prevBtn == Navigate(idx - 1)
nextBtn == Navigate(idx + 1)
keyArrowLeft == Navigate(idx - 1)
keyArrowRight == Navigate(idx + 1)

\* a numbered control drawn by the last renderNumButtons
numBtnClick ==
  \E i \in numstrip.first..(numstrip.first + numstrip.count - 1) : Navigate(i)

\* keys "1".."9", paged variant
keyDigit ==
  /\ variant = "paged"
  /\ \E d \in 1..9 :
       LET i == btnPage * PageSize + (d - 1) IN
       IF i < N THEN Navigate(i) ELSE UNCHANGED vars

\* (mutant: the wrap test written >= instead of >)
advancePageSkipsLast(bp, n) ==
  LET maxPage == (n - 1) \div PageSize
  IN IF bp + 1 >= maxPage THEN 0 ELSE bp + 1

advancePage(bp, n) ==
  LET maxPage == (n - 1) \div PageSize
  IN IF bp + 1 > maxPage THEN 0 ELSE bp + 1

\* (mutant: the handler ends in render() instead of renderNumButtons())
AdvancePageThenRender ==
  /\ render(idx, advancePage(btnPage, N), items, classToSpecies)
  /\ UNCHANGED <<variant, mainPc, items, classToSpecies, loader>>

AdvancePage ==
  /\ btnPage' = advancePage(btnPage, N)
  /\ numstrip' = renderNumButtons(variant, idx, btnPage', N)
  /\ UNCHANGED <<variant, mainPc, items, classToSpecies, idx, cacheDescriptors>>
  /\ UNCHANGED <<renders, fetches, meta, bigTitle, imgSrc, speciesList, classList>>
  /\ UNCHANGED loader

\* key "0", paged variant
keyZero == variant = "paged" /\ AdvancePage
\* the on-screen "0" control
advBtnClick == numstrip.adv /\ AdvancePage

\* (mutant: the exchange written as a plain assignment, one entry is lost)
SwapOverwrite(s, a, b) == [s EXCEPT ![a] = s[b]]

\* [items[i], items[j]] = [items[j], items[i]]
Swap(s, a, b) == [s EXCEPT ![a] = s[b], ![b] = s[a]]

\* every list the Fisher-Yates loop can leave, from the lists in S, for i down to 1
\* (0-based i and j as in the code)
RECURSIVE FisherYates(_, _)
FisherYates(S, i) ==
  IF i <= 0 THEN S
  ELSE FisherYates({Swap(s, i + 1, j + 1) : s \in S, j \in 0..i}, i - 1)

\* the lists the shuffle loop can leave from its; a list of equal entries is
\* left as it is by every exchange
Shuffles(its) ==
  IF \A k \in 1..Len(its) : its[k] = its[1] THEN {its}
  ELSE FisherYates({its}, Len(its) - 1)

shuffleBtn ==
  /\ variant = "paged"
  /\ \E shuffled \in Shuffles(items) :
       /\ items' = shuffled
       /\ render(0, 0, shuffled, classToSpecies)
  /\ UNCHANGED <<variant, mainPc, classToSpecies, loader>>

(* -------------------------- descriptor loading ------------------------- *)
\* (mutant: fetchJson without its r.ok check, the error document is parsed)
loadResultIgnoringStatus(o) == PostProcess(normalizeDescriptorList(o.body))

\* `data` of loadDescriptorsForSpecies once fetchJson has ended with outcome o:
\* the catch block leaves it []
loadData(o) == IF o.ok THEN normalizeDescriptorList(o.body) ELSE <<>>

\* what loadDescriptorsForSpecies stores and returns
loadResult(o) == PostProcess(loadData(o))

\* (mutant: a render that is no longer for the current entry drops its result)
ResumeIfCurrent(t, t2) ==
  IF AllDone(t2.res)
  THEN /\ renders' = renders (-) SetToBag({t})
       /\ IF N > 0 /\ idx < N /\ items[idx + 1] = t.item
          THEN WriteLists(t2.myDesc, t2.res)
          ELSE UNCHANGED <<speciesList, classList>>
  ELSE /\ InFlight(renders (-) SetToBag({t})) + PendingOf(t2) <= MaxInFlight
       /\ renders' = (renders (-) SetToBag({t})) (+) SetToBag({t2})
       /\ UNCHANGED <<speciesList, classList>>

\* the suspended render t goes on as t2
Resume(t, t2) ==
  IF AllDone(t2.res)
  THEN /\ renders' = renders (-) SetToBag({t})
       /\ WriteLists(t2.myDesc, t2.res)
  ELSE /\ InFlight(renders (-) SetToBag({t})) + PendingOf(t2) <= MaxInFlight
       /\ renders' = (renders (-) SetToBag({t})) (+) SetToBag({t2})
       /\ UNCHANGED <<speciesList, classList>>

\* the fetch behind `await loadDescriptorsForSpecies(species)` of the suspended
\* render t ends with outcome o
MyLoaded(t, o) ==
  /\ t.phase = "my"
  /\ LET out == loadResult(o)
         c2 == CacheSet(cacheDescriptors, t.item.species, out)
     IN /\ cacheDescriptors' = c2
        /\ IssueFetches(t.others, c2)
        /\ Resume(t, Task(t.item, "others", out, t.others, SiblingCalls(t.others, c2)))
  /\ UNCHANGED <<variant, mainPc, items, classToSpecies, idx, btnPage>>
  /\ UNCHANGED <<meta, bigTitle, imgSrc, numstrip, loader>>

myDescriptorsLoaded ==
  \E t \in BagToSet(renders), o \in FetchOutcomes : MyLoaded(t, o)

\* fetch j of the Promise.all fan-out of the suspended render t ends with outcome o
SiblingLoaded(t, j, o) ==
  /\ t.phase = "others"
  /\ j \in 1..Len(t.res)
  /\ ~t.res[j].done
  /\ cacheDescriptors' = CacheSet(cacheDescriptors, t.others[j], loadResult(o))
  /\ Resume(t, [t EXCEPT !.res[j] = Resolved(loadResult(o))])
  /\ UNCHANGED <<variant, mainPc, items, classToSpecies, idx, btnPage>>
  /\ UNCHANGED <<fetches, meta, bigTitle, imgSrc, numstrip, loader>>

siblingDescriptorsLoaded ==
  \E t \in BagToSet(renders), o \in FetchOutcomes :
    \E j \in 1..Len(t.res) : SiblingLoaded(t, j, o)

Next ==
  \/ mainImagesIndex
  \/ mainClassToSpecies
  \/ prevBtn
  \/ nextBtn
  \/ keyArrowLeft
  \/ keyArrowRight
  \/ numBtnClick
  \/ keyDigit
  \/ keyZero
  \/ advBtnClick
  \/ shuffleBtn
  \/ myDescriptorsLoaded
  \/ siblingDescriptorsLoaded

Spec == Init /\ [][Next]_vars

(* ------------------ the same entry rendered repeatedly ----------------- *)
\* the numbered control drawn with class "active": its handler assigns
\* state.idx the value it already has and calls render()
activeBtnClick == numstrip.active >= 0 /\ Navigate(numstrip.active)

\* the sessions in which the user only ever clicks the active numbered control
NextRerender ==
  \/ mainImagesIndex
  \/ mainClassToSpecies
  \/ activeBtnClick
  \/ myDescriptorsLoaded
  \/ siblingDescriptorsLoaded

SpecRerender == Init /\ [][NextRerender]_vars

(* ------------------- one descriptor load, step by step ----------------- *)
\* a single loadDescriptorsForSpecies call whose fetchJson has just ended
InitLoad ==
  /\ ViewerInit
  /\ ldPc = "fetched"
  /\ ldObj \in LoadOutcomes
  /\ ldData = <<>>
  /\ ldOut = <<>>

\* data = normalizeDescriptorList(obj), or [] in the catch block
loadNormalize ==
  /\ ldPc = "fetched"
  /\ ldData' = loadData(ldObj)
  /\ ldPc' = "normalized"
  /\ UNCHANGED <<prog, renders, fetches, dom, ldObj, ldOut>>

\* const out = uniq(data.map(...).filter(Boolean)); return out
loadPostProcess ==
  /\ ldPc = "normalized"
  /\ ldOut' = PostProcess(ldData)
  /\ ldPc' = "returned"
  /\ UNCHANGED <<prog, renders, fetches, dom, ldObj, ldData>>

NextLoad ==
  \/ loadNormalize
  \/ loadPostProcess

SpecLoad == InitLoad /\ [][NextLoad]_vars


(* ============================== properties ============================= *)
\* a step of one of the user's controls (buttons and keys)
UserAction ==
  \/ prevBtn \/ nextBtn \/ keyArrowLeft \/ keyArrowRight
  \/ numBtnClick \/ keyDigit \/ keyZero \/ advBtnClick \/ shuffleBtn

\* a step that ends a suspended render: its two lists are written
Completes(t) ==
  /\ \E o \in FetchOutcomes :
       MyLoaded(t, o) \/ \E j \in 1..Len(t.res) : SiblingLoaded(t, j, o)
  /\ BagCardinality(renders') < BagCardinality(renders)

\* C1: after every handler state.idx is in [0, N), and 0 when N = 0, in both
\* variants and before the manifests have loaded.
C1_IdxInRange == IF N = 0 THEN idx = 0 ELSE idx \in 0..(N - 1)

\* C1 witness: navigation in the window before the class map arrives has left
\* the index on the last entry of a list of several entries.
C1_Witness ==
  /\ mainPc = "class_to_species"
  /\ N >= 2
  /\ idx = N - 1
  /\ imgSrc # <<>>

\* C2: at most one fetch of a species' descriptor file is ever issued.
C2_AtMostOneFetch == refetched = {}

\* C3: a failed descriptor load is stored as the empty list, leaves the pager
\* alone, and is the very step a successful load of an empty list would be; the
\* render that ends with it shows the placeholder row for an empty own list.
OkEmptyOutcome == [ok |-> TRUE, body |-> JArr(<<>>)]
C3_FailedLoadIsEmptyList ==
  [][renders' # renders => \A t \in BagToSet(renders) :
       /\ MyLoaded(t, FailOutcome) =>
            /\ CacheHas(cacheDescriptors', t.item.species)
            /\ cacheDescriptors'[t.item.species] = <<>>
            /\ MyLoaded(t, OkEmptyOutcome)
            /\ <<idx, btnPage, items>>' = <<idx, btnPage, items>>
            /\ \/ /\ BagCardinality(renders') < BagCardinality(renders)
                  /\ speciesList' = <<PlaceholderRow>>
               \/ \E t2 \in BagToSet(renders') : t2.phase = "others" /\ t2.myDesc = <<>>
       /\ \A j \in 1..Len(t.res) :
            SiblingLoaded(t, j, FailOutcome) =>
              /\ CacheHas(cacheDescriptors', t.others[j])
              /\ cacheDescriptors'[t.others[j]] = <<>>
              /\ SiblingLoaded(t, j, OkEmptyOutcome)
              /\ <<idx, btnPage, items>>' = <<idx, btnPage, items>>
       /\ Completes(t) /\ t.myDesc = <<>> /\ t.phase = "others" =>
            speciesList' = <<PlaceholderRow>>
  ]_vars

\* C3 witness: a species is cached with the empty list (only a failed load
\* stores one), its render is over and the placeholder row is shown.
C3_Witness ==
  /\ renders = EmptyBag
  /\ N > 0
  /\ items[idx + 1].species.t = "string"
  /\ CacheHas(cacheDescriptors, items[idx + 1].species)
  /\ cacheDescriptors[items[idx + 1].species] = <<>>
  /\ speciesList = <<PlaceholderRow>>

\* C4: once a core manifest has failed the page is non-interactive: no control
\* changes what is displayed (image, lists, numbered controls, error message).
C4_FailedIsTerminal == [][(mainPc = "failed" /\ UserAction) => UNCHANGED dom]_vars

\* C5: every entry of state.items has a non-empty image_path and species, also
\* between the assignment of the raw manifest and the filter.
C5_ItemsValid == \A i \in 1..N : ValidEntry(items[i])

\* a step in which render() is called
RenderCalled ==
  \/ prevBtn \/ nextBtn \/ keyArrowLeft \/ keyArrowRight
  \/ numBtnClick \/ shuffleBtn
  \/ keyDigit /\ idx' # idx
  \/ mainClassToSpecies /\ mainPc' = "done"

\* C6: Next then Previous, and Previous then Next, return to the original idx
\* from every valid idx (also across the wrap), and leave 0 when N = 0: after
\* either step the opposite handler's index computation gives back the index
\* the step started from.
C6_NextPrevInverse ==
  [][/\ (nextBtn \/ keyArrowRight) /\ C1_IdxInRange =>
          clampIdx(idx' - 1, Len(items')) = idx
     /\ (prevBtn \/ keyArrowLeft) /\ C1_IdxInRange =>
          clampIdx(idx' + 1, Len(items')) = idx
  ]_vars

\* C6 witness: the paged variant shows the last of several entries once
\* startup is over (Previous from index 0 wraps there).
C6_Witness ==
  /\ variant = "paged"
  /\ mainPc = "done"
  /\ N >= 2
  /\ idx = N - 1
  /\ meta.kind = "position" /\ meta.pos = N

\* C7: a cached entry is never removed and never changes.
C7_CacheNeverChanges ==
  [][\A s \in DOMAIN cacheDescriptors :
       /\ s \in DOMAIN cacheDescriptors'
       /\ cacheDescriptors'[s] = cacheDescriptors[s]
  ]_vars

\* C8: paged variant: right after every call of render() the button page is
\* floor(idx / 9), also when that render runs with N = 0.
C8_PageSyncedAfterRender ==
  [][(variant = "paged" /\ RenderCalled) => btnPage' = idx' \div PageSize]_vars

\* the page reached from p by k advance-page actions
RECURSIVE AdvanceTimes(_, _, _)
AdvanceTimes(k, p, n) == IF k = 0 THEN p ELSE AdvanceTimes(k - 1, advancePage(p, n), n)

\* C9: advance-page moves from p < maxPage to p + 1 and from maxPage to 0;
\* maxPage + 1 of them return to the starting page having visited every page of
\* [0, maxPage] once; with N = 0 the page is 0 afterwards.
C9_AdvanceCycles ==
  [][(keyZero \/ advBtnClick) =>
       LET maxPage == (N - 1) \div PageSize IN
       /\ N = 0 => btnPage' = 0
       /\ (N > 0 /\ btnPage < maxPage) => btnPage' = btnPage + 1
       /\ (N > 0 /\ btnPage = maxPage) => btnPage' = 0
       /\ N > 0 =>
            /\ btnPage \in 0..maxPage
            /\ AdvanceTimes(maxPage, btnPage', N) = btnPage
            /\ {AdvanceTimes(k, btnPage', N) : k \in 0..maxPage} = 0..maxPage
  ]_vars

\* C9 witness: two advances have moved the button page to the third page
\* while the current entry is on the first.
C9_Witness ==
  /\ variant = "paged"
  /\ N > 2 * PageSize
  /\ btnPage = 2
  /\ idx < PageSize

\* the class-only list computed from the cache for entry item
ExpectedClassOnly(item, c, c2s) ==
  LET others == OtherSpecies("paged", item, c2s)
      lists == [j \in 1..Len(others) |-> IF CacheHas(c, others[j]) THEN c[others[j]] ELSE <<>>]
      own == IF CacheHas(c, item.species) THEN c[item.species] ELSE <<>>
  IN SelectSeq(uniq(Flat(lists)), LAMBDA d : d \notin SeqRange(own))

\* C10: paged variant: the class list a render writes for its entry is the
\* duplicate-free union of the cached lists of the other species of the entry's
\* class, without the descriptors of the entry's own cached list.
C10_ClassListFromCache ==
  [][\A t \in BagToSet(renders) :
       (variant = "paged" /\ Completes(t)) =>
          classList' = renderList("paged",
                         ExpectedClassOnly(t.item, cacheDescriptors', classToSpecies'))
  ]_vars

\* str is non-empty and neither starts nor ends with whitespace
IsTrimmed(str) == str # <<>> /\ str[1] \notin Whitespace /\ str[Len(str)] \notin Whitespace

\* where str first occurs among the trimmed strings of data
FirstPos(data, str) == CHOOSE k \in 1..Len(data) :
  /\ Trim(data[k]) = str
  /\ \A m \in 1..(k - 1) : Trim(data[m]) # str

\* C11: whatever the fetch ended with, the list loadDescriptorsForSpecies returns
\* (and stores) holds only strings without leading or trailing whitespace, no
\* empty string and no string twice; its members are the trimmed non-empty
\* strings of the normalized list, in the order of their first occurrence there
C11_PostProcessed ==
  ldPc = "returned" =>
    /\ \A i \in 1..Len(ldOut) : IsTrimmed(ldOut[i])
    /\ \A i, j \in 1..Len(ldOut) : i # j => ldOut[i] # ldOut[j]
    /\ SeqRange(ldOut) = {Trim(d) : d \in SeqRange(ldData)} \ {<<>>}
    /\ \A i, j \in 1..Len(ldOut) :
         i < j => FirstPos(ldData, ldOut[i]) < FirstPos(ldData, ldOut[j])

\* [" x", "x"] has come back as ["x"]
C11_Witness ==
  /\ ldPc = "returned"
  /\ ldData = << <<" ", "x">>, <<"x">> >>
  /\ ldOut = << <<"x">> >>

\* the dispatch as the claim words it
C17_KeyOrder == <<"descriptors", "attributes", "captions", "descriptor_list">>

C17_ListKeys(p) ==
  {i \in 1..Len(C17_KeyOrder) :
     /\ p.t = "object"
     /\ \E q \in 1..Len(p.v) : p.v[q].k = C17_KeyOrder[i] /\ p.v[q].val.t = "array"}

C17_Dispatch(p) ==
  CASE p.t = "array" -> [i \in 1..Len(p.v) |-> ToStr(p.v[i])]
    [] p.t # "array" /\ C17_ListKeys(p) # {} ->
         LET first == CHOOSE i \in C17_ListKeys(p) : \A k \in C17_ListKeys(p) : i <= k
             q == CHOOSE r \in 1..Len(p.v) : p.v[r].k = C17_KeyOrder[first]
         IN [i \in 1..Len(p.v[q].val.v) |-> ToStr(p.v[q].val.v[i])]
    [] p.t = "object" /\ C17_ListKeys(p) = {} /\ (\A q \in 1..Len(p.v) : p.v[q].val.t = "string") ->
         [q \in 1..Len(p.v) |-> p.v[q].val.v]
    [] OTHER -> <<>>

\* C17: normalizeDescriptorList gives (a) for a list its stringified elements,
\* else (b) the stringified list under the first of descriptors, attributes,
\* captions, descriptor_list that holds a list, else (c) for an object whose
\* values are all strings those values, else (d) the empty list; null and
\* scalars give the empty list
C17_FirstMatchWins ==
  (ldPc # "fetched" /\ ldObj.ok) =>
    /\ ldData = C17_Dispatch(ldObj.body)
    /\ ldObj.body.t \notin {"array", "object"} => ldData = <<>>

\* {attributes: [...], descriptors: [...]}: the list under descriptors is taken
\* although attributes comes first in the file
C17_Witness ==
  /\ ldPc = "normalized"
  /\ ldObj.ok
  /\ ldObj.body.t = "object"
  /\ Len(ldObj.body.v) = 2
  /\ ldObj.body.v[1].k = "attributes" /\ ldObj.body.v[1].val.t = "array"
  /\ ldObj.body.v[2].k = "descriptors" /\ ldObj.body.v[2].val.t = "array"
  /\ ldObj.body.v[1].val # ldObj.body.v[2].val
  /\ ldData = MapString(ldObj.body.v[2].val.v)

\* C12: once a render() call for the current state.items and state.idx has run
\* to completion, a further render() call for the same state.items and
\* state.idx leaves the visible output as it is: neither its synchronous part
\* nor its completion changes meta, title, image, numbered controls or lists
C12_RenderIdempotent ==
  [][(mainPc = "done" /\ speciesList # <<>>) => dom' = dom]_vars

\* C13: a render that completes after the user has moved on to an entry of
\* another species (or after the list has become empty) still writes the
\* species list of the entry it was started for into the visible list
C13_StaleRenderStillWrites ==
  [][renders' # renders =>
       \A t \in BagToSet(renders) :
         (Completes(t) /\ (N = 0 \/ t.item.species # items[idx + 1].species)) =>
           speciesList' = renderList(variant, IF t.phase = "my"
                                              THEN cacheDescriptors'[t.item.species]
                                              ELSE t.myDesc)
  ]_vars

\* C13 witness (paged variant): no load is in flight, image and meta line show
\* the current entry, and both lists on screen are those of another entry
C13_Witness ==
  /\ variant = "paged"
  /\ renders = EmptyBag
  /\ mainPc = "done"
  /\ N > 0
  /\ imgSrc = setImage(items[idx + 1])
  /\ meta = setMetaText(variant, items[idx + 1], idx, N)
  /\ CacheHas(cacheDescriptors, items[idx + 1].species)
  /\ speciesList # renderList(variant, cacheDescriptors[items[idx + 1].species])
  /\ \E k \in 1..N :
       /\ items[k].species # items[idx + 1].species
       /\ CacheHas(cacheDescriptors, items[k].species)
       /\ speciesList = renderList(variant, cacheDescriptors[items[k].species])
       /\ classList = renderList(variant,
            ExpectedClassOnly(items[k], cacheDescriptors, classToSpecies))
       /\ classList # renderList(variant,
            ExpectedClassOnly(items[idx + 1], cacheDescriptors, classToSpecies))

\* C14: a click on the numbered control of item i leaves state.idx = i, within
\* [0, N); digit key d targets i = state.btnPage * 9 + (d - 1), leaves
\* state.idx = i after a render when i < N and changes nothing otherwise; and
\* the control that shows digit d on screen is the control of the item digit
\* key d targets
C14_DirectJump ==
  [][/\ \A i \in numstrip.first..(numstrip.first + numstrip.count - 1) :
          Navigate(i) => (idx' = i /\ i < N)
     /\ variant = "paged" =>
          \A d \in 1..PageSize :
            LET i == btnPage * PageSize + (d - 1) IN
            /\ (i < N /\ Navigate(i)) => idx' = i
            /\ d <= numstrip.count => numstrip.first + (d - 1) = i
  ]_vars

\* how many times entry e occurs in list s
Count(s, e) == Cardinality({k \in 1..Len(s) : s[k] = e})

\* C15: paged variant: shuffle leaves state.items a permutation of what it was
\* (same length, every entry as often as before), state.idx = 0 and
\* state.btnPage = 0, for every N; and the completion of a descriptor load
\* changes none of state.items, state.idx, state.btnPage
C15_ShufflePermutes ==
  [][/\ (items' # items /\ shuffleBtn) =>
          /\ Len(items') = Len(items)
          /\ \A e \in SeqRange(items) \cup SeqRange(items') : Count(items', e) = Count(items, e)
     /\ (idx' # 0 \/ btnPage' # 0) => ~shuffleBtn
     /\ (items' # items \/ idx' # idx \/ btnPage' # btnPage) =>
          ~(myDescriptorsLoaded \/ siblingDescriptorsLoaded)
  ]_vars

\* C15 witness: shuffle has exchanged the two entries of the manifest [a, b]
\* and its render is waiting for a descriptor file
C15_Witness ==
  /\ variant = "paged"
  /\ items = <<EntryB, EntryA>>
  /\ idx = 0
  /\ btnPage = 0
  /\ renders # EmptyBag

\* the class-only list of an entry of species own whose class has the other
\* species others, when the descriptor files hold the lists c
ClassOnlyOf(own, others, c) ==
  SelectSeq(uniq(Flat([j \in 1..Len(others) |-> c[others[j]]])),
            LAMBDA d : d \notin SeqRange(c[own]))

\* every list the suspended render t has been handed so far is the one c holds
\* for that species: the files did not change while t was running
FixedContents(t, c) ==
  t.phase = "others" =>
    /\ t.myDesc = c[t.item.species]
    /\ \A j \in 1..Len(t.res) : t.res[j].done => t.res[j].val = c[t.others[j]]

\* C16: paged variant: when a render writes its class list, the load of every
\* sibling species has completed, and if each file gave the same list whenever
\* it was read for this render, the list written is the duplicate-free union
\* of the sibling lists taken in the class map's order, minus the entry's own
\* descriptors, whatever the order in which the sibling fetches completed
C16_FanOutOrderInsensitive ==
  [][renders' # renders =>
       \A t \in BagToSet(renders) :
         (variant = "paged" /\ Completes(t)) =>
           /\ \A j \in 1..Len(t.others) : CacheHas(cacheDescriptors', t.others[j])
           /\ FixedContents(t, cacheDescriptors') =>
                classList' = renderList(variant,
                  ClassOnlyOf(t.item.species, t.others, cacheDescriptors'))
  ]_vars

\* C16 witness: the entry with two sibling species has been rendered: s_a.json
\* gave x, y and s_b.json gave y, z, the entry's own file nothing, and the
\* class list shows x, y, z
C16_Witness ==
  /\ variant = "paged"
  /\ renders = EmptyBag
  /\ items = <<EntryC>>
  /\ DOMAIN cacheDescriptors = {JStr(SpA), JStr(SpB), JStr(SpC)}
  /\ cacheDescriptors[JStr(SpA)] = << <<"x">>, <<"y">> >>
  /\ cacheDescriptors[JStr(SpB)] = << <<"y">>, <<"z">> >>
  /\ cacheDescriptors[JStr(SpC)] = <<>>
  /\ classList = renderList(variant, << <<"x">>, <<"y">>, <<"z">> >>)

\* C18: paged variant: in every reachable state state.btnPage lies in
\* 0..max(0, floor((N - 1) / 9)), so no numbered control of the page
\* addresses an index >= N
C18_BtnPageInRange ==
  variant = "paged" =>
    LET maxPage == (N - 1) \div PageSize
    IN btnPage \in 0..(IF maxPage > 0 THEN maxPage ELSE 0)

\* C19: the "0" control and the "0" key change nothing but state.btnPage and
\* the numbered controls: state.idx, state.items, the cache, the image, the
\* meta line and the descriptor lists stay, and no fetch is issued
C19_AdvancePageOnlyPaginates ==
  [][(keyZero \/ advBtnClick) =>
       /\ UNCHANGED <<idx, items, classToSpecies, cacheDescriptors>>
       /\ UNCHANGED <<imgSrc, meta, bigTitle, speciesList, classList>>
       /\ UNCHANGED <<renders, fetched, refetched>>
  ]_vars

\* C19 witness: after startup on more than nine entries the button page has
\* been advanced to the second page; entry, image and meta line are the first
\* entry's and its descriptor load is still in flight
C19_Witness ==
  /\ variant = "paged"
  /\ mainPc = "done"
  /\ N > PageSize
  /\ idx = 0
  /\ btnPage = 1
  /\ numstrip = renderNumButtons(variant, idx, 1, N)
  /\ imgSrc = setImage(items[1])
  /\ meta = setMetaText(variant, items[1], 0, N)
  /\ renders # EmptyBag

====
